---------------------------- MODULE Spec2Model ----------------------------
(***************************************************************************)
(* Model of the Fur Affinity API server (src/app): the authorization       *)
(* store AUTHS, the two authorization endpoints, a data endpoint and the   *)
(* exception handlers.  Each request handler is an `async def` whose only  *)
(* await is of authorize_cookies, which never suspends, so one request     *)
(* runs from its first statement to its response without another request   *)
(* of the same process in between: one action per request.                 *)
(***************************************************************************)
EXTENDS Integers, Sequences, FiniteSets, TLC

\* The clock (time()) is observed up to this value; later reads repeat it.
MaxTime == 3

\* The clock of the per-address pacing (furaffinity_api) counts ticks,
\* TicksPerUnit of them in one unit of time(), and is observed up to MaxNow.
TicksPerUnit == 3
MaxNow == 5

\* DATABASE_LIMIT of the environment; the code's default is 10000.
database_limit == 1

Range(s) == {s[i] : i \in DOMAIN s}

Min(a, b) == IF a <= b THEN a ELSE b

---------------------------------------------------------------------------
\* Request bodies: Body.cookies, a list of Cookie(name, value).

Cookie(n, v) == [name |-> n, value |-> v]

CookiesNone == <<>>
CookiesA    == <<Cookie("a", "1")>>
CookiesAB   == <<Cookie("a", "1"), Cookie("b", "2")>>
CookiesBA   == <<Cookie("b", "2"), Cookie("a", "1")>>
CookiesA1B2 == <<Cookie("a", "1b=2")>>

\* The bodies the requests of the model carry.
Bodies == {CookiesNone, CookiesA, CookiesAB, CookiesBA, CookiesA1B2}

\* The concatenation taken from the last cookie to the first (not the
\* program's).
RECURSIVE join_reversed(_)
join_reversed(cookies) ==
    IF cookies = <<>> THEN ""
    ELSE join_reversed(Tail(cookies)) \o Head(cookies).name \o "=" \o Head(cookies).value

\* "".join(f"{c.name}={c.value}" for c in self.cookies)
RECURSIVE join(_)
join(cookies) ==
    IF cookies = <<>> THEN ""
    ELSE Head(cookies).name \o "=" \o Head(cookies).value \o join(Tail(cookies))

\* sha1(...).hexdigest(): the digest of a string, taken as injective.
sha1_hexdigest(s) == <<"sha1", s>>

\* Body.cookies_id
cookies_id(cookies) == sha1_hexdigest(join(cookies))

\* Python's None as an exception detail, and as the value of a call that raised.
null == "null"
None == [none |-> TRUE]

\* raise_for_unauthorized without its test of the list.
raise_for_unauthorized_never(cookies) == "none"

\* Body.raise_for_unauthorized: the exception it raises, "none" when it returns.
raise_for_unauthorized(cookies) ==
    IF cookies = <<>> THEN "Unauthorized" ELSE "none"

---------------------------------------------------------------------------
\* The external client (faapi).  login_status answers or raises; so does a
\* resource fetch.

ExternalFailures ==
    {"faapi.NoticeMessage", "faapi.ServerError", "faapi.DisallowedPath",
     "faapi.ParsingError", "requests.ConnectionError"}

LoginAnswers == {"logged_in", "not_logged_in"} \cup ExternalFailures

FetchAnswers == {"found"} \cup ExternalFailures

\* The external calls as a handler's events record them, with their answer.
login_status(answer) == "login_status:" \o answer
submission(answer)   == "submission:" \o answer

\* The login check without its raise for a session that is not logged in.
login_check_lenient(login) ==
    IF login \in ExternalFailures THEN login ELSE "none"

\* if not (api := faapi.FAAPI(...)).login_status: raise Unauthorized(...):
\* the exception these lines raise for an answer of login_status, "none" when
\* they fall through.
login_check(login) ==
    IF login \in ExternalFailures THEN login
    ELSE IF login # "logged_in" THEN "Unauthorized"
    ELSE "none"

---------------------------------------------------------------------------
\* The table AUTHS (ID character(40) primary key, ADDED float) as the
\* connection of the process sees it.

Row(id, added) == [ID |-> id, ADDED |-> added]

\* The lookup finding no row.
select_id_misses(db, id) == {}

\* select ID from AUTHS where ID = %s
select_id(db, id) == {r \in db : r.ID = id}

\* The delete without its where clause.
delete_id_all(db, id) == {}

\* delete from AUTHS where ID = %s
delete_id(db, id) == {r \in db : r.ID # id}

\* select count(ID) from AUTHS
count_id(db) == Cardinality(db)

\* select ID from AUTHS order by ADDED limit n: the results the database may
\* give, rows of equal ADDED in either order.
select_oldest(db, n) ==
    {S \in SUBSET db :
        /\ Cardinality(S) = Min(n, Cardinality(db))
        /\ \A r \in S : \A q \in db \ S : r.ADDED <= q.ADDED}

\* Query arguments as psycopg2 receives them: a tuple (x,) or a bare value (x).
Tuple(x)  == [sequence |-> TRUE, item |-> x]
Scalar(x) == [sequence |-> FALSE, item |-> x]

\* cursor.execute(query, vars) fills %s from vars[0], which raises TypeError
\* when vars is not a sequence.
execute_raises(vars) == IF vars.sequence THEN "none" ELSE "TypeError"

\* The arguments of the eviction query: (tot - database_limit), an int in
\* parentheses.
oldest_args(tot) == Scalar(tot - database_limit)

\* What a handler does: the table afterwards, the statements and external
\* calls it made in order, the exception it raised ("none": it returned) with
\* its detail, and the value it returned.
Returns(db, events, ret) ==
    [db |-> db, events |-> events, exc |-> "none", detail |-> null, ret |-> ret]

Raises(db, events, exc, detail) ==
    [db |-> db, events |-> events, exc |-> exc, detail |-> detail, ret |-> None]

Deletes(S) == [i \in 1..Cardinality(S) |-> "delete"]

\* The eviction sweep and the insertion of authorize_cookies, entered with the
\* count tot: the outcomes for each result of the eviction query.
insert_auth(db, events, id, tot, t) ==
    IF tot > database_limit
    THEN IF execute_raises(oldest_args(tot)) # "none"
         THEN {Raises(db, events \o <<"select_oldest">>,
                      execute_raises(oldest_args(tot)), null)}
         ELSE {Returns({r \in db : r \notin S} \cup {Row(id, t)},
                       events \o <<"select_oldest">> \o Deletes(S)
                              \o <<"insert", "commit", "handle_delay">>,
                       [id |-> id, added |-> TRUE])
                 : S \in select_oldest(db, oldest_args(tot).item)}
    ELSE {Returns(db \cup {Row(id, t)},
                  events \o <<"insert", "commit", "handle_delay">>,
                  [id |-> id, added |-> TRUE])}

\* authorize_cookies(body); login is what faapi's login_status does when it is
\* asked, t what time() returns when it is read.
authorize_cookies(db, cookies, login, t) ==
    IF raise_for_unauthorized(cookies) # "none"
    THEN {Raises(db, <<>>, raise_for_unauthorized(cookies), "Missing cookies")}
    ELSE IF select_id(db, cookies_id(cookies)) # {}
    THEN {Returns(db, <<"select_id">>,
                  [id |-> cookies_id(cookies), exists |-> TRUE, added |-> FALSE])}
    ELSE IF login_check(login) # "none"
    THEN {Raises(db, <<"select_id", login_status(login)>>, login_check(login),
                 IF login_check(login) = "Unauthorized"
                 THEN "Not a login session" ELSE null)}
    ELSE insert_auth(db, <<"select_id", login_status(login), "count">>,
                     cookies_id(cookies), count_id(db), t)

\* deauthorize_cookies(body)
deauthorize_cookies(db, cookies) ==
    IF raise_for_unauthorized(cookies) # "none"
    THEN {Raises(db, <<>>, raise_for_unauthorized(cookies), "Missing cookies")}
    ELSE IF select_id(db, cookies_id(cookies)) = {}
    THEN {Returns(db, <<"select_id">>, [id |-> cookies_id(cookies)])}
    ELSE {Returns(delete_id(db, cookies_id(cookies)),
                  <<"select_id", "delete", "commit">>,
                  [id |-> cookies_id(cookies), exists |-> TRUE, removed |-> TRUE])}

\* get_submission dropping the authorization of a body whose fetch failed.
get_submission_forgets(db, cookies, login, t, fetch) ==
    {IF a.exc # "none" THEN a
     ELSE IF fetch \in ExternalFailures
     THEN Raises(delete_id(a.db, cookies_id(cookies)),
                 a.events \o <<submission(fetch)>>, fetch, null)
     ELSE Returns(a.db, a.events \o <<submission(fetch), "handle_delay">>,
                  [results |-> "submission"])
       : a \in authorize_cookies(db, cookies, login, t)}

\* get_submission fetching once more when its fetch failed.
get_submission_retries(db, cookies, login, t, fetch) ==
    {IF a.exc # "none" THEN a
     ELSE IF fetch \in ExternalFailures
     THEN Raises(a.db, a.events \o <<submission(fetch), submission(fetch)>>,
                 fetch, null)
     ELSE Returns(a.db, a.events \o <<submission(fetch), "handle_delay">>,
                  [results |-> "submission"])
       : a \in authorize_cookies(db, cookies, login, t)}

\* get_submission(submission_id, body): authorize_cookies, then the fetch,
\* then the pacing delay.
get_submission(db, cookies, login, t, fetch) ==
    {IF a.exc # "none" THEN a
     ELSE IF fetch \in ExternalFailures
     THEN Raises(a.db, a.events \o <<submission(fetch)>>, fetch, null)
     ELSE Returns(a.db, a.events \o <<submission(fetch), "handle_delay">>,
                  [results |-> "submission"])
       : a \in authorize_cookies(db, cookies, login, t)}

\* The resource fetches of other data endpoints, by the method of the
\* external client they call, as events record them: one endpoint keyed by
\* an id, one by a username and one folder (the remaining endpoints have the
\* same three statements).
DataMethods == {"journal", "user", "gallery"}

resource(method, answer) == method \o ":" \o answer

\* get_journal, get_user, get_gallery: authorize_cookies, then the fetch,
\* then the pacing delay.
data_endpoint(method, db, cookies, login, t, answer) ==
    {IF a.exc # "none" THEN a
     ELSE IF answer \in ExternalFailures
     THEN Raises(a.db, a.events \o <<resource(method, answer)>>, answer, null)
     ELSE Returns(a.db, a.events \o <<resource(method, answer), "handle_delay">>,
                  [results |-> method])
       : a \in authorize_cookies(db, cookies, login, t)}

\* The primary key of AUTHS without its check.
insert_raises_never(db, id) == "none"

\* insert into AUTHS (ID, ADDED) values (%s, %s), ID being the primary key:
\* the exception it raises, "none" when the row goes in.
insert_raises(db, id) ==
    IF \E r \in db : r.ID = id THEN "IntegrityError" ELSE "none"

\* The test of the count that lets every count through.
over_limit_never(tot) == FALSE

\* if (tot := cursor.fetchone()[0]) > database_limit
over_limit(tot) == tot > database_limit

---------------------------------------------------------------------------
\* Responses.

HTTP_401_UNAUTHORIZED == 401
HTTP_403_FORBIDDEN == 403
HTTP_404_NOT_FOUND == 404
HTTP_500_INTERNAL_SERVER_ERROR == 500

\* The response of a handler that returned ret, and of a request that has
\* not been made.
ok_response(ret) == [status |-> 200, body |-> ret]

\* The default status code of each HTTPException subclass of app/exceptions.py.
status_code(cls) ==
    CASE cls = "Unauthorized"   -> HTTP_401_UNAUTHORIZED
      [] cls = "DisallowedPath" -> HTTP_403_FORBIDDEN
      [] cls = "NotFound"       -> HTTP_404_NOT_FOUND
      [] OTHER                  -> HTTP_500_INTERNAL_SERVER_ERROR

\* handle_http_exception(_request, err)
handle_http_exception(cls, detail) ==
    [status |-> status_code(cls), body |-> [error |-> cls, details |-> detail]]

\* handle_notice_message
handle_notice_message == handle_http_exception("Unauthorized", null)

\* handle_server_error
handle_server_error == handle_http_exception("NotFound", null)

\* handle_disallowed_path
handle_disallowed_path == handle_http_exception("DisallowedPath", null)

\* The server's answer to an exception no handler is registered for: a plain
\* text body, not a JSON object.
server_error ==
    [status |-> HTTP_500_INTERNAL_SERVER_ERROR,
     body |-> [text |-> "Internal Server Error"]]

\* The responses with a handler registered for Exception that answers as
\* handle_server_error does.
response_catch_all(out) ==
    CASE out.exc = "none" -> ok_response(out.ret)
      [] out.exc \in {"Unauthorized", "NotFound", "DisallowedPath"} ->
            handle_http_exception(out.exc, out.detail)
      [] out.exc = "faapi.NoticeMessage"  -> handle_notice_message
      [] out.exc = "faapi.DisallowedPath" -> handle_disallowed_path
      [] OTHER -> handle_server_error

\* The response to a request whose handler did `out`: the return value, the
\* registered exception handler's response, or the server's 500 for an
\* exception without a handler.
response(out) ==
    CASE out.exc = "none" -> ok_response(out.ret)
      [] out.exc \in {"Unauthorized", "NotFound", "DisallowedPath"} ->
            handle_http_exception(out.exc, out.detail)
      [] out.exc = "faapi.NoticeMessage"  -> handle_notice_message
      [] out.exc = "faapi.ServerError"    -> handle_server_error
      [] out.exc = "faapi.DisallowedPath" -> handle_disallowed_path
      [] OTHER -> server_error

---------------------------------------------------------------------------
\* The shapes of the responses: the projections of a user object and the
\* pages of a folder, in the two applications of the repository.

MaxStamp == 3
MaxPage == 2
MaxResults == 2

\* A datetime, by its timestamp().
datetime(t) == [timestamp |-> t]

\* faapi.User / faapi.UserPartial: the fields the projections decide on.
Users ==
    [status : {"", "~"}, join_date : {datetime(t) : t \in 0 .. MaxStamp}]

\* app.models.iter_user
iter_user(usr) ==
    [status    |-> usr.status,
     join_date |-> IF usr.join_date.timestamp > 0 THEN usr.join_date ELSE None]

\* app.models.iter_user_partial
iter_user_partial(usr) ==
    [status    |-> IF usr.status # "" THEN usr.status ELSE None,
     join_date |-> IF usr.join_date.timestamp > 0 THEN usr.join_date ELSE None]

\* furaffinity_api.models.serialise_user
serialise_user(usr) ==
    [status    |-> usr.status,
     join_date |-> usr.join_date]

\* furaffinity_api.models.serialise_user_partial
serialise_user_partial(usr) ==
    [status    |-> IF usr.status # "" THEN usr.status ELSE None,
     join_date |-> IF usr.join_date.timestamp > 0 THEN usr.join_date ELSE None]

UserProjections ==
    {"iter_user", "iter_user_partial", "serialise_user", "serialise_user_partial"}

\* faapi.User.__iter__ = ..., faapi.UserPartial.__iter__ = ...
project(fn, usr) ==
    CASE fn = "iter_user"              -> iter_user(usr)
      [] fn = "iter_user_partial"      -> iter_user_partial(usr)
      [] fn = "serialise_user"         -> serialise_user(usr)
      [] fn = "serialise_user_partial" -> serialise_user_partial(usr)

\* The next-page markers of the external client: an integer, a string, or
\* None.
int_marker(n) == [int |-> n]
str_marker(s) == [str |-> s]

\* bool(n) of a marker
truthy(n) == n # None /\ n # int_marker(0) /\ n # str_marker("")

\* the page of favorites is a string, the page of every other folder an integer
Markers(endpoint) ==
    IF endpoint = "favorites"
    THEN {str_marker(""), str_marker("next"), None}
    ELSE {int_marker(n) : n \in 0 .. MaxPage} \cup {None}

\* r: the items of a page
Results == {[i \in 1 .. k |-> "item"] : k \in 0 .. MaxResults}

AppFolders ==
    {"watchlist_by", "watchlist_to", "gallery", "scraps", "favorites", "journals"}

ApiFolders == {"gallery", "scraps", "favorites", "journals"}

\* The declared type of next in the response model of a folder endpoint.
app_next_type(endpoint) ==
    [optional |-> TRUE,
     tags     |-> IF endpoint \in {"gallery", "scraps", "favorites"}
                  THEN {"int", "str"} ELSE {"int"}]

furaffinity_api_next_type(endpoint) ==
    [optional |-> FALSE,
     tags     |-> IF endpoint \in {"gallery", "scraps", "favorites"}
                  THEN {"int", "str"} ELSE {"int"}]

\* response_model=...: a value the declared type does not admit is a
\* validation error of the response, answered as a server error.
response_model(type, content) ==
    IF \/ content.next = None /\ type.optional
       \/ content.next # None /\ DOMAIN content.next \subseteq type.tags
    THEN ok_response(content)
    ELSE server_error

\* app.main: return {"results": r, "next": n or None}
app_folder_page(endpoint, r, n) ==
    response_model(app_next_type(endpoint),
                   [results |-> r, next |-> IF truthy(n) THEN n ELSE None])

\* furaffinity_api.main: return {"results": r, "next": n}
furaffinity_api_folder_page(endpoint, r, n) ==
    response_model(furaffinity_api_next_type(endpoint),
                   [results |-> r, next |-> n])

MaxName == 3

\* The characters of a request username, and the usernames: strings as
\* sequences of characters.
Characters == {"a", "b", "_"}
Usernames == UNION {[1 .. k -> Characters] : k \in 1 .. MaxName}

\* str.replace giving up after the first occurrence (not the program's).
RECURSIVE replace_first(_, _, _)
replace_first(str, old, new) ==
    IF str = <<>> THEN <<>>
    ELSE IF Head(str) = old THEN new \o Tail(str)
    ELSE <<Head(str)>> \o replace_first(Tail(str), old, new)

\* str.replace(old, new), old one character: every occurrence is replaced.
RECURSIVE replace(_, _, _)
replace(str, old, new) ==
    IF str = <<>> THEN <<>>
    ELSE (IF Head(str) = old THEN new ELSE <<Head(str)>>)
            \o replace(Tail(str), old, new)

\* username.replace("_", ""): the key every username endpoint passes on.
lookup_key(username) == replace(username, "_", <<>>)

\* The endpoints with a username in their path.
AppUserEndpoints == {"user"} \cup AppFolders
ApiUserEndpoints == {"user"} \cup ApiFolders

\* The call an endpoint makes on the external client.
external_call(endpoint, username) ==
    [method |-> endpoint, username |-> lookup_key(username)]

NotShaped ==
    [fn |-> "none", endpoint |-> "none", usr |-> None, marker |-> None,
     out |-> None]

---------------------------------------------------------------------------
\* State.
\*   store  the rows of AUTHS
\*   clock  the last value time() returned
\*   last   the last request served: its endpoint, body, the table before it,
\*          what its handler did and the response; and (first) the events
\*          of the request before it when that was an /auth/add/ with the
\*          same body whose login_status answered logged_in, <<>> otherwise
\*   streak the rows inserted so far, in order, while every request since the
\*          start has been an /auth/add/ that inserted a row
\*   loop   the event loop of the process: the request it is running and
\*          the stage of each client's request
\*   pacing the per-address pacing of furaffinity_api: the time, the table
\*          ip_list.ips and the worker threads serving requests
VARIABLES store, clock, last, streak, loop, pacing, shaped, hist, race

vars == <<store, clock, last, streak, loop, pacing, shaped, hist, race>>

\* The threads that run the `def` routes of furaffinity_api, and the
\* addresses requests come from.
Workers == {"w1", "w2"}
Addresses == {"ip1", "ip2"}

\* A thread that serves no request.
WorkerIdle == [pc |-> "idle", ip |-> "none", last |-> 0, wake |-> 0,
               slept |-> FALSE, returned |-> 0]

\* ip_list = IPList(): no address recorded; time() is positive.
PacingIdle ==
    [now |-> 1, ips |-> [a \in {} |-> 0], worker |-> [w \in Workers |-> WorkerIdle]]

\* The clients whose requests the event loop serves.
Clients == {"c1", "c2", "c3"}

\* No request received, none running.
LoopIdle == [running |-> "none", pc |-> [c \in Clients |-> "idle"]]

\* The table with, for each cookie list, what became of its record: "stored"
\* once an /auth/add/ of the list has validated it and inserted its row,
\* "removed" when that row has been deleted and the list has not been sent
\* to /auth/add/ since, "none" otherwise.
HistIdle ==
    [store  |-> {},
     clock  |-> 0,
     record |-> [c \in Bodies |-> "none"],
     last   |-> [op |-> "none", cookies |-> <<>>, was |-> "none",
                 asked |-> {}, exc |-> "none", ret |-> None]]

\* The server processes that share the database, each with the connection
\* it opened at startup and one request at a time.
Processes == {"p1", "p2"}

\* A process between requests: no statement of its transaction has written.
ProcIdle ==
    [pc |-> "idle", op |-> "none", cookies |-> <<>>, tot |-> 0,
     rows |-> {}, gone |-> {}, failed |-> FALSE]

\* The committed rows of AUTHS, the time, and the processes.
RaceIdle ==
    [table |-> {}, now |-> 0, proc |-> [p \in Processes |-> ProcIdle]]

NoRequest ==
    [op |-> "none", cookies |-> <<>>, before |-> {}, events |-> <<>>,
     exc |-> "none", ret |-> None, response |-> ok_response(None),
     first |-> <<>>]

Init ==
    /\ store = {}
    /\ clock = 0
    /\ last = NoRequest
    /\ streak = [pure |-> TRUE, rows |-> <<>>]
    /\ loop = LoopIdle
    /\ pacing = PacingIdle
    /\ shaped = NotShaped
    /\ hist = HistIdle
    /\ race = RaceIdle

\* The values time() may return next.
Times == clock .. Min(clock + 1, MaxTime)

Served(op, cookies, out) ==
    [op |-> op, cookies |-> cookies, before |-> store, events |-> out.events,
     exc |-> out.exc, ret |-> out.ret, response |-> response(out),
     first |-> IF /\ last.op = "auth_add"
                  /\ last.cookies = cookies
                  /\ login_status("logged_in") \in Range(last.events)
               THEN last.events ELSE <<>>]

\* The row a handler inserted, as a set: empty when it inserted none.
Inserted(out) == out.db \ store

Serve(op, cookies, out) ==
    /\ store' = out.db
    /\ clock' = IF Inserted(out) # {}
                THEN (CHOOSE r \in Inserted(out) : TRUE).ADDED ELSE clock
    /\ last' = Served(op, cookies, out)
    /\ streak' = IF /\ streak.pure
                    /\ op = "auth_add"
                    /\ Inserted(out) # {}
                 THEN [pure |-> TRUE,
                       rows |-> Append(streak.rows, CHOOSE r \in Inserted(out) : TRUE)]
                 ELSE [pure |-> FALSE, rows |-> <<>>]
    /\ UNCHANGED <<loop, pacing, shaped, hist, race>>

\* POST /auth/add/
AuthAdd ==
    \E cookies \in Bodies :
        \E out \in UNION {authorize_cookies(store, cookies, login, t) :
                            login \in LoginAnswers, t \in Times} :
            Serve("auth_add", cookies, out)

\* POST /auth/remove/
AuthRemove ==
    \E cookies \in Bodies :
        \E out \in deauthorize_cookies(store, cookies) :
            Serve("auth_remove", cookies, out)

\* POST /submission/{submission_id}/
Submission ==
    \E cookies \in Bodies :
        \E out \in UNION {get_submission(store, cookies, login, t, fetch) :
                            login \in LoginAnswers, t \in Times, fetch \in FetchAnswers} :
            Serve("submission", cookies, out)

Next == AuthAdd \/ AuthRemove \/ Submission

\* POST to one of the other data endpoints
Data ==
    \E method \in DataMethods, cookies \in Bodies :
        \E out \in UNION {data_endpoint(method, store, cookies, login, t, answer) :
                            login \in LoginAnswers, t \in Times,
                            answer \in FetchAnswers} :
            Serve(method, cookies, out)

\* The data endpoints alone: the table is filled by their authorize_cookies.
NextData == Submission \/ Data

Spec == Init /\ [][Next]_vars

SpecData == Init /\ [][NextData]_vars

---------------------------------------------------------------------------
\* The event loop.  A request to an `async def` route is a task of the one
\* event loop of the process; a task keeps the loop until it awaits
\* something that suspends it.  get_submission awaits authorize_cookies
\* only, which awaits nothing; the database calls, the calls of the external
\* client and api.handle_delay() are plain calls, so the task that runs
\* keeps the loop through all of them, its pacing delays included.

\* The stages of get_submission in order: authorize_cookies with its external
\* validation (line 166) and its own delay (line 177), the fetch (line 188)
\* and the delay after it (line 189).
after_stage(stage) ==
    CASE stage = "login_status"    -> "authorize_delay"
      [] stage = "authorize_delay" -> "submission"
      [] stage = "submission"      -> "handle_delay"
      [] stage = "handle_delay"    -> "done"

\* The stages in which the task sits in api.handle_delay().
DelayStages == {"authorize_delay", "handle_delay"}

\* The loop takes a task that is ready only when it runs no task.
can_start == loop.running = "none"

SetStage(c, stage, running) ==
    /\ loop' = [running |-> running, pc |-> [loop.pc EXCEPT ![c] = stage]]
    /\ UNCHANGED <<store, clock, last, streak, pacing, shaped, hist, race>>

\* The server receives a request of client c and makes it a task.
Receive(c) ==
    /\ loop.pc[c] \in {"idle", "done"}
    /\ SetStage(c, "queued", loop.running)

\* The loop starts the task of c: the handler runs up to its first external
\* call, the validation or, when the cookies have a row, the fetch.
Start(c) ==
    /\ loop.pc[c] = "queued"
    /\ can_start
    /\ \E stage \in {"login_status", "submission"} : SetStage(c, stage, c)

\* The running task goes on to its next stage; it gives up the loop when the
\* handler returns.
Advance(c) ==
    /\ loop.running = c
    /\ loop.pc[c] # "done"
    /\ SetStage(c, after_stage(loop.pc[c]),
                IF after_stage(loop.pc[c]) = "done" THEN "none" ELSE c)

\* An external call of the running task raises, or login_status answers
\* false: the handler ends there.
Fail(c) ==
    /\ loop.running = c
    /\ loop.pc[c] \in {"login_status", "submission"}
    /\ SetStage(c, "done", "none")

NextLoop == \E c \in Clients : Receive(c) \/ Start(c) \/ Advance(c) \/ Fail(c)

SpecLoop == Init /\ [][NextLoop]_vars

---------------------------------------------------------------------------
\* Per-address pacing (furaffinity_api).  The routes are plain `def`s, each
\* request runs in a thread of the server's pool; wait_ip is their first
\* statement.

\* The minimum interval of wait_ip, 1 unit of time(), in ticks.
Interval == 1 * TicksPerUnit

\* ip_list.ips.get(ip, None); 0 stands for None: line 79 takes both as false.
get(ips, ip) == IF ip \in DOMAIN ips THEN ips[ip] ELSE 0

\* wait_ip sleeping on the last call of any address.
sleeps_any(ips, ip, t) ==
    \E a \in DOMAIN ips : ips[a] # 0 /\ t - ips[a] < Interval

\* (last := ip_list.ips.get(ip, None)) and (d := t - last) < 1
sleeps(ips, ip, t) == get(ips, ip) # 0 /\ t - get(ips, ip) < Interval

\* d := t - last, the argument of sleep(d)
sleep_time(ips, ip, t) == t - get(ips, ip)

\* ip_list.ips[ip] = time()
record(ips, ip, t) ==
    [a \in DOMAIN ips \cup {ip} |-> IF a = ip THEN t ELSE ips[a]]

SetWorker(w, state, ips) ==
    /\ pacing' = [now |-> pacing.now, ips |-> ips,
                  worker |-> [pacing.worker EXCEPT ![w] = state]]
    /\ UNCHANGED <<store, clock, last, streak, loop, shaped, hist, race>>

\* wait_ip, lines 77-80: a request from ip enters; the thread reads the time
\* and the entry of ip and sleeps d, or goes on.
Enter(w, ip) ==
    /\ pacing.worker[w].pc = "idle"
    /\ IF sleeps(pacing.ips, ip, pacing.now)
       THEN /\ pacing.now + sleep_time(pacing.ips, ip, pacing.now) <= MaxNow
            /\ SetWorker(w, [pc |-> "sleep", ip |-> ip,
                             last |-> get(pacing.ips, ip),
                             wake |-> pacing.now
                                      + sleep_time(pacing.ips, ip, pacing.now),
                             slept |-> TRUE, returned |-> 0], pacing.ips)
       ELSE SetWorker(w, [pc |-> "set", ip |-> ip,
                          last |-> get(pacing.ips, ip),
                          wake |-> pacing.now, slept |-> FALSE, returned |-> 0],
                      pacing.ips)

\* sleep(d) returns once d has passed.
Wake(w) ==
    /\ pacing.worker[w].pc = "sleep"
    /\ pacing.now >= pacing.worker[w].wake
    /\ SetWorker(w, [pacing.worker[w] EXCEPT !.pc = "set"], pacing.ips)

\* wait_ip, line 81: the entry of the address is set and wait_ip returns.
Set(w) ==
    /\ pacing.worker[w].pc = "set"
    /\ SetWorker(w, [pacing.worker[w] EXCEPT !.pc = "fetch",
                                              !.returned = pacing.now],
                 record(pacing.ips, pacing.worker[w].ip, pacing.now))

\* The rest of the route: the call of the external client and the response.
Respond(w) ==
    /\ pacing.worker[w].pc = "fetch"
    /\ SetWorker(w, WorkerIdle, pacing.ips)

\* Time passes.
Tick ==
    /\ pacing.now < MaxNow
    /\ pacing' = [pacing EXCEPT !.now = pacing.now + 1]
    /\ UNCHANGED <<store, clock, last, streak, loop, shaped, hist, race>>

NextWait ==
    \/ \E w \in Workers, ip \in Addresses : Enter(w, ip)
    \/ \E w \in Workers : Wake(w) \/ Set(w) \/ Respond(w)
    \/ Tick

SpecWait == Init /\ [][NextWait]_vars

---------------------------------------------------------------------------
\* The responses of the user and folder endpoints.

SetShaped(fn, endpoint, usr, marker, out) ==
    /\ shaped' = [fn |-> fn, endpoint |-> endpoint, usr |-> usr,
                  marker |-> marker, out |-> out]
    /\ UNCHANGED <<store, clock, last, streak, loop, pacing, hist, race>>

\* A user object is projected for a response.
ProjectUser ==
    \E fn \in UserProjections, usr \in Users :
        SetShaped(fn, "none", usr, None, project(fn, usr))

\* A folder endpoint of app answers.
AppFolderPage ==
    \E endpoint \in AppFolders, r \in Results :
        \E n \in Markers(endpoint) :
            SetShaped("app_folder_page", endpoint, None, n,
                      app_folder_page(endpoint, r, n))

\* A folder endpoint of furaffinity_api answers.
ApiFolderPage ==
    \E endpoint \in ApiFolders, r \in Results :
        \E n \in Markers(endpoint) :
            SetShaped("furaffinity_api_folder_page", endpoint, None, n,
                      furaffinity_api_folder_page(endpoint, r, n))

\* An endpoint of app looks a username up.
AppLookup ==
    \E endpoint \in AppUserEndpoints, username \in Usernames :
        SetShaped("app_lookup", endpoint, username, None,
                  external_call(endpoint, username))

\* An endpoint of furaffinity_api looks a username up.
ApiLookup ==
    \E endpoint \in ApiUserEndpoints, username \in Usernames :
        SetShaped("furaffinity_api_lookup", endpoint, username, None,
                  external_call(endpoint, username))

NextShape ==
    ProjectUser \/ AppFolderPage \/ ApiFolderPage \/ AppLookup \/ ApiLookup

SpecShape == Init /\ [][NextShape]_vars

---------------------------------------------------------------------------
\* The /auth/ endpoints with the history of each cookie list's record.

HistTimes == hist.clock .. Min(hist.clock + 1, MaxTime)

\* The answers login_status gave during events.
Asked(events) ==
    {answer \in LoginAnswers : login_status(answer) \in Range(events)}

\* What has become of the record of c after a request did out.
record_after(c, op, cookies, out) ==
    IF op = "auth_add" /\ c = cookies
    THEN IF out.db \ hist.store # {} THEN "stored"
         ELSE IF /\ hist.record[c] = "stored"
                 /\ \E r \in out.db : r.ID = cookies_id(c)
              THEN "stored"
              ELSE "none"
    ELSE IF /\ hist.record[c] = "stored"
            /\ ~ \E r \in out.db : r.ID = cookies_id(c)
         THEN "removed"
         ELSE hist.record[c]

HistServe(op, cookies, out) ==
    /\ hist' = [store  |-> out.db,
                clock  |-> IF out.db \ hist.store # {}
                           THEN (CHOOSE r \in out.db \ hist.store : TRUE).ADDED
                           ELSE hist.clock,
                record |-> [c \in Bodies |-> record_after(c, op, cookies, out)],
                last   |-> [op |-> op, cookies |-> cookies,
                            was |-> hist.record[cookies],
                            asked |-> Asked(out.events),
                            exc |-> out.exc, ret |-> out.ret]]
    /\ UNCHANGED <<store, clock, last, streak, loop, pacing, shaped, race>>

\* POST /auth/add/
HistAuthAdd ==
    \E cookies \in Bodies :
        \E out \in UNION {authorize_cookies(hist.store, cookies, login, t) :
                            login \in LoginAnswers, t \in HistTimes} :
            HistServe("auth_add", cookies, out)

\* POST /auth/remove/
HistAuthRemove ==
    \E cookies \in Bodies :
        \E out \in deauthorize_cookies(hist.store, cookies) :
            HistServe("auth_remove", cookies, out)

NextHistory == HistAuthAdd \/ HistAuthRemove

SpecHistory == Init /\ [][NextHistory]_vars

---------------------------------------------------------------------------
\* authorize_cookies and deauthorize_cookies statement by statement, in
\* processes that run at the same time.  A row a transaction has inserted or
\* deleted shows in the table when the transaction commits, and a statement
\* that writes a row waits for the transaction that wrote the row's key.

CookiesB == <<Cookie("b", "2")>>

RaceBodies == {CookiesA, CookiesB, CookiesAB, CookiesBA}

SetProc(p, now, table, proc) ==
    /\ race' = [table |-> table, now |-> now,
                proc |-> [race.proc EXCEPT ![p] = proc]]
    /\ UNCHANGED <<store, clock, last, streak, loop, pacing, shaped, hist>>

\* The handler of p returns or raises: its locals are gone.
Done(p) == SetProc(p, race.now, race.table, [ProcIdle EXCEPT !.failed = race.proc[p].failed])

At(p, pc) == SetProc(p, race.now, race.table, [race.proc[p] EXCEPT !.pc = pc])

\* The keys written by transactions of other processes that are still open.
Locked(p) ==
    UNION {{r.ID : r \in race.proc[q].rows} \cup race.proc[q].gone :
            q \in Processes \ {p}}

\* A request arrives at p; body.raise_for_unauthorized() passes.
Call(p) ==
    /\ race.proc[p].pc = "idle"
    /\ ~race.proc[p].failed
    /\ \E op \in {"auth_add", "auth_remove"}, cookies \in RaceBodies :
        /\ raise_for_unauthorized(cookies) = "none"
        /\ SetProc(p, race.now, race.table,
                   [race.proc[p] EXCEPT !.pc = "select", !.op = op,
                                        !.cookies = cookies])

\* select ID from AUTHS where ID = %s, and the branch on its result
SelectId(p) ==
    /\ race.proc[p].pc = "select"
    /\ IF race.proc[p].op = "auth_add"
       THEN IF select_id(race.table, cookies_id(race.proc[p].cookies)) # {}
            THEN Done(p) ELSE At(p, "login")
       ELSE IF select_id(race.table, cookies_id(race.proc[p].cookies)) # {}
            THEN At(p, "delete") ELSE Done(p)

\* login_status
Login(p) ==
    /\ race.proc[p].pc = "login"
    /\ \E login \in LoginAnswers :
        IF login_check(login) # "none" THEN Done(p) ELSE At(p, "count")

\* select count(ID) from AUTHS, and the test of the count
Count(p) ==
    /\ race.proc[p].pc = "count"
    /\ SetProc(p, race.now, race.table,
               [race.proc[p] EXCEPT
                    !.tot = count_id(race.table),
                    !.pc = IF over_limit(count_id(race.table))
                           THEN "sweep" ELSE "insert"])

\* The eviction query and the deletes of the rows it gives.
Sweep(p) ==
    /\ race.proc[p].pc = "sweep"
    /\ IF execute_raises(oldest_args(race.proc[p].tot)) # "none"
       THEN Done(p)
       ELSE \E S \in select_oldest(race.table, oldest_args(race.proc[p].tot).item) :
                /\ {r.ID : r \in S} \cap Locked(p) = {}
                /\ SetProc(p, race.now, race.table,
                           [race.proc[p] EXCEPT !.gone = {r.ID : r \in S},
                                                !.pc = "insert"])

\* insert into AUTHS (ID, ADDED) values (%s, %s) with time(): a duplicate
\* key raises and leaves the transaction of the connection aborted.
Insert(p) ==
    /\ race.proc[p].pc = "insert"
    /\ cookies_id(race.proc[p].cookies) \notin Locked(p)
    /\ IF insert_raises({r \in race.table : r.ID \notin race.proc[p].gone},
                        cookies_id(race.proc[p].cookies)) # "none"
       THEN SetProc(p, race.now, race.table, [ProcIdle EXCEPT !.failed = TRUE])
       ELSE \E t \in race.now .. Min(race.now + 1, MaxTime) :
                SetProc(p, t, race.table,
                        [race.proc[p] EXCEPT
                            !.rows = {Row(cookies_id(race.proc[p].cookies), t)},
                            !.pc = "commit"])

\* delete from AUTHS where ID = %s
Delete(p) ==
    /\ race.proc[p].pc = "delete"
    /\ cookies_id(race.proc[p].cookies) \notin Locked(p)
    /\ SetProc(p, race.now, race.table,
               [race.proc[p] EXCEPT !.gone = {cookies_id(race.proc[p].cookies)},
                                    !.pc = "commit"])

\* settings.database.commit(), and the return
Commit(p) ==
    /\ race.proc[p].pc = "commit"
    /\ SetProc(p, race.now,
               {r \in race.table : r.ID \notin race.proc[p].gone}
                    \cup race.proc[p].rows,
               [ProcIdle EXCEPT !.failed = race.proc[p].failed])

NextRace ==
    \E p \in Processes :
        \/ Call(p) \/ SelectId(p) \/ Login(p) \/ Count(p)
        \/ Sweep(p) \/ Insert(p) \/ Delete(p) \/ Commit(p)

SpecRace == Init /\ [][NextRace]_vars

---------------------------------------------------------------------------
\* Properties.

HasRecord(db, cookies) == \E r \in db : r.ID = cookies_id(cookies)

LoginEvents == {login_status(answer) : answer \in LoginAnswers}

\* The number of login_status calls among events.
Validations(events) ==
    Cardinality({i \in DOMAIN events : events[i] \in LoginEvents})

AuthEndpoints == {"auth_add", "auth_remove"}

\* C1: an /auth/add/ or /auth/remove/ request with an empty cookie list fails
\* with Unauthorized (401), makes no external call and executes no statement
\* on the table, which it leaves as it was.
C1_EmptyCookiesRejected ==
    (last.op \in AuthEndpoints /\ last.cookies = <<>>) =>
        /\ last.exc = "Unauthorized"
        /\ last.response.status = HTTP_401_UNAUTHORIZED
        /\ last.events = <<>>
        /\ store = last.before

C1_Witness ==
    /\ last.op = "auth_remove"
    /\ last.cookies = <<>>
    /\ last.before # {}

\* C2: /auth/add/ with a non-empty body whose id has a row in the table
\* returns {id, exists: true, added: false} and does not ask login_status.
C2_CacheHit ==
    (/\ last.op = "auth_add"
     /\ last.cookies # <<>>
     /\ HasRecord(last.before, last.cookies)) =>
        /\ last.exc = "none"
        /\ last.ret = [id |-> cookies_id(last.cookies), exists |-> TRUE, added |-> FALSE]
        /\ Validations(last.events) = 0

C2_Witness ==
    /\ last.op = "auth_add"
    /\ last.cookies # <<>>
    /\ HasRecord(last.before, last.cookies)

\* C3: /auth/add/ with a non-empty body that has no row, for which
\* login_status answers logged in, returns {id, added: true} and the table has
\* a row for the id afterwards, whatever the number of rows before.
C3_ValidCredentialsAreAdded ==
    (/\ last.op = "auth_add"
     /\ last.cookies # <<>>
     /\ ~HasRecord(last.before, last.cookies)
     /\ login_status("logged_in") \in Range(last.events)) =>
        /\ last.exc = "none"
        /\ last.ret = [id |-> cookies_id(last.cookies), added |-> TRUE]
        /\ HasRecord(store, last.cookies)

\* C4: /auth/add/ with a non-empty body that has no row, for which
\* login_status answers not logged in, fails with
\* Unauthorized("Not a login session") and leaves the table as it was.
C4_NotLoggedInRejected ==
    (/\ last.op = "auth_add"
     /\ last.cookies # <<>>
     /\ ~HasRecord(last.before, last.cookies)
     /\ login_status("not_logged_in") \in Range(last.events)) =>
        /\ last.exc = "Unauthorized"
        /\ last.response = [status |-> HTTP_401_UNAUTHORIZED,
                            body |-> [error |-> "Unauthorized",
                                      details |-> "Not a login session"]]
        /\ store = last.before

C4_Witness ==
    /\ last.op = "auth_add"
    /\ login_status("not_logged_in") \in Range(last.events)
    /\ last.before # {}

\* C5: after a request whose authorize_cookies inserted a row, the table holds
\* at most database_limit rows.
C5_AtMostLimitAfterInsert ==
    ("insert" \in Range(last.events)) => Cardinality(store) <= database_limit

StrictlyIncreasing(rows) ==
    \A i, j \in DOMAIN rows : i < j => rows[i].ADDED < rows[j].ADDED

\* C6: from the empty table, after database_limit + k (k >= 1) distinct
\* bodies were added one after another with strictly increasing ADDED, the
\* table holds database_limit rows: the ones added last.
C6_EvictionKeepsNewest ==
    (/\ streak.pure
     /\ Len(streak.rows) > database_limit
     /\ StrictlyIncreasing(streak.rows)) =>
        /\ Cardinality(store) = database_limit
        /\ store = {streak.rows[i] :
                      i \in (Len(streak.rows) - database_limit + 1) .. Len(streak.rows)}

\* C7: an /auth/add/ that follows at once an /auth/add/ of the same valid body,
\* which had no row then, returns exists: true, added: false; the two
\* requests asked login_status once in all and the table has one row for
\* the id.
C7_SecondAuthorizeIsCacheHit ==
    (last.op = "auth_add" /\ last.first # <<>>) =>
        /\ Validations(last.first \o last.events) = 1
        /\ Cardinality({r \in store : r.ID = cookies_id(last.cookies)}) = 1
        /\ last.exc = "none"
        /\ last.ret = [id |-> cookies_id(last.cookies), exists |-> TRUE, added |-> FALSE]

\* C8: /auth/remove/ with a non-empty body returns
\* {id, exists: true, removed: true} exactly when the table had a row for the
\* id and {id} otherwise, without an error; afterwards the table has no row
\* for the id and every other row is as before.
C8_Deauthorize ==
    (last.op = "auth_remove" /\ last.cookies # <<>>) =>
        /\ last.exc = "none"
        /\ last.ret = IF HasRecord(last.before, last.cookies)
                      THEN [id |-> cookies_id(last.cookies),
                            exists |-> TRUE, removed |-> TRUE]
                      ELSE [id |-> cookies_id(last.cookies)]
        /\ ~HasRecord(store, last.cookies)
        /\ store = {r \in last.before : r.ID # cookies_id(last.cookies)}

C8_Witness ==
    /\ last.op = "auth_remove"
    /\ HasRecord(last.before, last.cookies)
    /\ store # {}

\* C9: the table starts empty, and a row appears only in a request whose
\* login_status answered logged in for the body the row's id is computed
\* from: never in a cache hit, a failed validation, an /auth/remove/ or a
\* request that ended in an exception handler.
C9_RowsOnlyAfterValidation ==
    /\ store = {}
    /\ [][\A r \in store' \ store :
            /\ last'.op \in {"auth_add", "submission"}
            /\ login_status("logged_in") \in Range(last'.events)
            /\ r.ID = cookies_id(last'.cookies)
            /\ last'.op = "auth_add" => last'.exc = "none"]_vars

C9_Witness ==
    /\ last.op = "submission"
    /\ last.exc \in ExternalFailures
    /\ HasRecord(store, last.cookies)
    /\ ~HasRecord(last.before, last.cookies)

\* C10: a row keeps its ADDED, and it leaves the table only in an
\* /auth/remove/ of its own id or in the eviction sweep of a request that
\* inserts; cache hits, failed validations, requests that end in an exception
\* handler and fetches leave every row as it was.
C10_RowsNeverUpdated ==
    [][/\ \A r \in store :
            \/ r \in store'
            \/ last'.op = "auth_remove" /\ r.ID = cookies_id(last'.cookies)
            \/ {"delete", "insert"} \subseteq Range(last'.events)
       /\ \A r \in store, q \in store' : q.ID = r.ID => q.ADDED = r.ADDED
       /\ "insert" \notin Range(last'.events) /\ last'.op # "auth_remove"
            => store' = store]_vars

C10_Witness ==
    /\ last.op = "submission"
    /\ last.exc \in ExternalFailures
    /\ "insert" \notin Range(last.events)
    /\ last.before # {}
    /\ store = last.before

\* The exceptions a registered handler answers, and the external calls among
\* a handler's events.
HandledExceptions ==
    {"Unauthorized", "NotFound", "DisallowedPath",
     "faapi.NoticeMessage", "faapi.ServerError", "faapi.DisallowedPath"}

ExternalEvents ==
    LoginEvents \cup {submission(answer) : answer \in FetchAnswers}

\* The error kind a response names: the class in its body, "uncategorized"
\* for a body that names none.
Kind(resp) ==
    IF "error" \in DOMAIN resp.body THEN resp.body.error ELSE "uncategorized"

\* The documented kind and status of each external failure variant.
Documented(exc) ==
    CASE exc = "faapi.NoticeMessage"  -> [kind |-> "Unauthorized", status |-> 401]
      [] exc = "faapi.DisallowedPath" -> [kind |-> "DisallowedPath", status |-> 403]
      [] exc = "faapi.ServerError"    -> [kind |-> "NotFound", status |-> 404]
      [] exc = "faapi.ParsingError"   -> [kind |-> "ParsingError", status |-> 500]

\* C11: a request in which the external client raised a notice message, a
\* disallowed path, a server error or a parsing error is answered with the
\* documented kind and status: Unauthorized 401, DisallowedPath 403,
\* NotFound 404, ParsingError 500.
C11_ExternalFailuresNormalized ==
    (last.exc \in {"faapi.NoticeMessage", "faapi.DisallowedPath",
                   "faapi.ServerError", "faapi.ParsingError"}) =>
        /\ Kind(last.response) = Documented(last.exc).kind
        /\ last.response.status = Documented(last.exc).status

\* C12: the body of every response an exception handler produced has the
\* field detail of the Error schema.
C12_ErrorBodyHasDetail ==
    (last.exc \in HandledExceptions) => "detail" \in DOMAIN last.response.body

\* C13: a request in which the external client raised an exception no
\* handler is registered for ends in the server's 500: not in a 2xx status
\* and not in a body naming one of the four kinds.
C13_UnhandledFailureIsServerError ==
    (last.exc \in ExternalFailures \ HandledExceptions) =>
        /\ last.response.status = 500
        /\ last.response.status \notin 200 .. 299
        /\ Kind(last.response) = "uncategorized"

C13_Witness ==
    /\ last.op = "submission"
    /\ last.exc = "requests.ConnectionError"
    /\ submission("requests.ConnectionError") \in Range(last.events)

\* C14: in the events of every request, each external call (login_status or
\* fetch, whatever it answered) is followed by a handle_delay.
C14_DelayAfterEveryExternalCall ==
    \A i \in DOMAIN last.events :
        last.events[i] \in ExternalEvents =>
            \E j \in DOMAIN last.events : j > i /\ last.events[j] = "handle_delay"

\* C15: while the request of one client is in a pacing delay, the queued
\* request of another client can be started.
C15_DelayBlocksNoOtherRequest ==
    \A c, d \in Clients :
        (c # d /\ loop.pc[c] \in DelayStages /\ loop.pc[d] = "queued")
            => ENABLED Start(d)

\* C16: when wait_ip has returned for an address that had a recorded call,
\* at least the minimum interval has passed since that call.
C16_MinimumIntervalKept ==
    \A w \in Workers :
        (pacing.worker[w].pc = "fetch" /\ pacing.worker[w].last # 0) =>
            pacing.worker[w].returned - pacing.worker[w].last >= Interval

\* C17: wait_ip sets the entry of the caller's address to the current time,
\* whether it slept or not, and no other entry; the entries change in no
\* other step; and a thread sleeps only when the entry of its own address
\* is less than the interval old.
C17_OwnEntryOnly ==
    [][/\ \A w \in Workers :
            (pacing.worker[w].pc = "set" /\ pacing'.worker[w].pc = "fetch") =>
                /\ pacing'.ips[pacing.worker[w].ip] = pacing.now
                /\ \A a \in DOMAIN pacing'.ips \ {pacing.worker[w].ip} :
                        a \in DOMAIN pacing.ips /\ pacing'.ips[a] = pacing.ips[a]
       /\ pacing'.ips # pacing.ips =>
            \E w \in Workers :
                pacing.worker[w].pc = "set" /\ pacing'.worker[w].pc = "fetch"
       /\ \A w \in Workers :
            (pacing.worker[w].pc = "idle" /\ pacing'.worker[w].pc \in {"sleep", "set"}) =>
                (pacing'.worker[w].pc = "sleep" <=>
                    /\ pacing'.worker[w].ip \in DOMAIN pacing.ips
                    /\ pacing.now - pacing.ips[pacing'.worker[w].ip] < Interval)]_vars

C17_Witness ==
    \E w \in Workers :
        /\ pacing.worker[w].pc = "fetch"
        /\ ~pacing.worker[w].slept
        /\ pacing.worker[w].last # 0
        /\ DOMAIN pacing.ips = Addresses
        /\ \E a \in Addresses : pacing.ips[a] # pacing.ips[pacing.worker[w].ip]

\* The digest of each cookie sequence, written out.
FixedVector(cookies) ==
    CASE cookies = CookiesNone -> <<"sha1", "">>
      [] cookies = CookiesA    -> <<"sha1", "a=1">>
      [] cookies = CookiesAB   -> <<"sha1", "a=1b=2">>
      [] cookies = CookiesBA   -> <<"sha1", "b=2a=1">>
      [] cookies = CookiesA1B2 -> <<"sha1", "a=1b=2">>

\* C18: the id an auth endpoint returns for a cookie sequence is the digest
\* of the name=value pairs concatenated in the order given, whatever the
\* time and the table are (the same sequence always gives the same id), a
\* row inserted for the sequence carries that id, and the sequences
\* [(a,1),(b,2)] and [(b,2),(a,1)] give different ids.
C18_FingerprintOfOrderedSequence ==
    /\ (last.op \in AuthEndpoints /\ last.ret # None) =>
            last.ret.id = FixedVector(last.cookies)
    /\ (last.op = "auth_add" /\ "insert" \in Range(last.events)) =>
            \E r \in store \ last.before : r.ID = FixedVector(last.cookies)
    /\ cookies_id(CookiesAB) = <<"sha1", "a=1b=2">>
    /\ cookies_id(CookiesBA) = <<"sha1", "b=2a=1">>
    /\ cookies_id(CookiesAB) # cookies_id(CookiesBA)

C18_Witness ==
    /\ last.op = "auth_add"
    /\ last.cookies = CookiesBA
    /\ last.ret = [id |-> <<"sha1", "b=2a=1">>, added |-> TRUE]
    /\ \E r \in last.before : r.ID = <<"sha1", "a=1b=2">>
    /\ \E r \in store \ last.before : r.ID = <<"sha1", "b=2a=1">>

FolderPages == {"app_folder_page", "furaffinity_api_folder_page"}

\* C19: every projection of a user gives join_date null when the timestamp
\* of the user's join date is zero, and the join date itself when it is
\* positive.
C19_JoinDateSentinel ==
    shaped.fn \in UserProjections =>
        shaped.out.join_date =
            IF shaped.usr.join_date.timestamp = 0 THEN None
            ELSE shaped.usr.join_date

\* C20: the response of every folder endpoint carries next, which is null
\* exactly when the marker of the external client is falsy (zero, empty
\* string or None), and is the marker otherwise.
C20_NextNullIffMarkerFalsy ==
    shaped.fn \in FolderPages =>
        /\ shaped.out.status = 200
        /\ shaped.out.body.next = None <=> ~truthy(shaped.marker)
        /\ truthy(shaped.marker) => shaped.out.body.next = shaped.marker

Lookups == {"app_lookup", "furaffinity_api_lookup"}

\* The characters of a username that are not underscores, in order.
WithoutUnderscores(username) == SelectSeq(username, LAMBDA c : c # "_")

\* C21: the key a username endpoint passes to the external client is the
\* request username with every underscore removed, so that every username
\* that differs from it only in underscores leads to the same key.
C21_UnderscoresStripped ==
    shaped.fn \in Lookups =>
        /\ shaped.out.method = shaped.endpoint
        /\ shaped.out.username = WithoutUnderscores(shaped.usr)
        /\ \A other \in Usernames :
                WithoutUnderscores(other) = WithoutUnderscores(shaped.usr) =>
                    external_call(shaped.endpoint, other) = shaped.out

C21_Witness ==
    /\ shaped.fn = "furaffinity_api_lookup"
    /\ shaped.endpoint = "user"
    /\ shaped.usr = <<"_", "a", "_">>
    /\ shaped.out.username = <<"a">>

\* C22: /auth/add/ answers a list with exists: true, asking login_status
\* nothing, only when that very list was validated before and its record is
\* still stored, no other list having the id it returns.
C22_CacheHitOnlyForValidatedList ==
    (/\ hist.last.op = "auth_add"
     /\ hist.last.exc = "none"
     /\ hist.last.asked = {}) =>
        /\ hist.last.was = "stored"
        /\ \A d \in Bodies \ {hist.last.cookies} :
                cookies_id(d) # hist.last.ret.id

\* C27: the first /auth/add/ of a list after its record was removed asks
\* login_status, does not answer exists: true, and when login_status says
\* logged in answers added: true with a new row of the list's id stored.
C27_FreshValidationAfterRemoval ==
    (hist.last.op = "auth_add" /\ hist.last.was = "removed") =>
        /\ hist.last.asked # {}
        /\ hist.last.ret # [id |-> cookies_id(hist.last.cookies),
                            exists |-> TRUE, added |-> FALSE]
        /\ "logged_in" \in hist.last.asked =>
                /\ hist.last.ret = [id |-> cookies_id(hist.last.cookies),
                                    added |-> TRUE]
                /\ HasRecord(hist.store, hist.last.cookies)

DataOps == {"submission"} \cup DataMethods

\* The resource fetches among events, by their positions.
Fetches(events) ==
    {i \in DOMAIN events :
        \E method \in DataOps, answer \in FetchAnswers :
            events[i] = method \o ":" \o answer}

\* The login_status calls among events, by their positions.
Logins(events) == {i \in DOMAIN events : events[i] \in LoginEvents}

\* authorize_cookies returned for the cookies of the last request: they were
\* in the table, or login_status said logged in and their row went in.
AuthorizeReturned ==
    /\ last.cookies # <<>>
    /\ \/ \E r \in last.before : r.ID = cookies_id(last.cookies)
       \/ /\ login_status("logged_in") \in Range(last.events)
          /\ "insert" \in Range(last.events)

\* C23: a data endpoint whose authorize_cookies fails fetches nothing; one
\* whose authorize_cookies returns fetches exactly once, with the method of
\* the endpoint, after no login_status on a cache hit and after exactly one
\* on a cache miss; no external call is made twice.
C23_FetchOnlyAfterAuthorize ==
    last.op \in DataOps =>
        /\ ~AuthorizeReturned => Fetches(last.events) = {}
        /\ AuthorizeReturned =>
            /\ Cardinality(Fetches(last.events)) = 1
            /\ \A i \in Fetches(last.events) :
                    /\ \E answer \in FetchAnswers :
                            last.events[i] = last.op \o ":" \o answer
                    /\ \A j \in Logins(last.events) : j < i
            /\ Cardinality(Logins(last.events)) =
                    IF \E r \in last.before : r.ID = cookies_id(last.cookies)
                    THEN 0 ELSE 1
        /\ Cardinality(Logins(last.events)) <= 1

C23_Witness ==
    /\ last.op = "user"
    /\ last.before # {}
    /\ ~ \E r \in last.before : r.ID = cookies_id(last.cookies)
    /\ \E i, j \in DOMAIN last.events :
            /\ i < j
            /\ last.events[i] = login_status("logged_in")
            /\ last.events[j] = "user:faapi.ServerError"

\* The rows an /auth/add/ deleted.
Evicted == last.before \ store

\* C24: an /auth/add/ that validated its cookies, with n rows in the table,
\* deletes exactly max(0, n - database_limit) rows, none when
\* n <= database_limit, and every row it deletes is at most as recent as
\* every row of before that it keeps.
C24_SweepDeletesOldestExcess ==
    (/\ last.op = "auth_add"
     /\ login_status("logged_in") \in Range(last.events)) =>
        /\ Cardinality(Evicted) =
                IF Cardinality(last.before) > database_limit
                THEN Cardinality(last.before) - database_limit ELSE 0
        /\ \A r \in Evicted : \A q \in last.before \ Evicted :
                r.ADDED <= q.ADDED

\* The rows of the table with those open transactions have inserted.
AllRows == race.table \cup UNION {race.proc[p].rows : p \in Processes}

\* C25: whatever the interleaving of the statements of concurrent
\* /auth/add/ and /auth/remove/ requests, the table never holds two rows of
\* one id.
C25_OneRowPerId ==
    \A r, q \in AllRows : r.ID = q.ID => r = q

C25_Witness ==
    \E p \in Processes : \E q \in Processes \ {p} :
        /\ race.proc[p].failed
        /\ race.proc[q].pc = "delete"
        /\ race.table # {}

\* C26: with at most as many /auth/add/ requests in flight as there are
\* processes, the table never holds more than database_limit rows plus one
\* for each process.
C26_OvershootBounded ==
    Cardinality(AllRows) <= database_limit + Cardinality(Processes)

C26_Witness ==
    /\ Cardinality(race.table) = database_limit + Cardinality(Processes)
    /\ \A p \in Processes : race.proc[p].pc = "idle" /\ ~race.proc[p].failed

=============================================================================
